---- MODULE Spec2Model ----
(***************************************************************************)
(* Model of tuya_strip/cli.py: argument parsing, configuration loading,   *)
(* interactive setup, the retry wrapper and the three device operations.  *)
(*                                                                         *)
(* Strings are TLA+ strings; Python's None is the string None.  A dict is  *)
(* a function whose DOMAIN is the set of keys present.  The protocol       *)
(* version (a float with one decimal) is held in tenths: 3.3 is 33.        *)
(* Everything the process does that an observer can see (lines printed,    *)
(* calls on the device handle, sleeps, the exit) is appended to trace in   *)
(* the order the code does it.                                             *)
(***************************************************************************)
EXTENDS Integers, Sequences, FiniteSets, TLC

\* ------------------------------------------------------------ bounds
\* largest --retries value tried (the code accepts any int)
MaxRetries == 3
\* largest plug index tried on the command line (the code accepts any int)
MaxPlugArg == 4

\* ------------------------------------------------------------ constants
\* default of --retries
DefaultRetries == 3
\* default of --timeout
DefaultTimeout == 10
\* default sleep between attempts
DefaultDelay == 1
\* the version used when TUYA_VERSION is unset: float("3.3"), in tenths
DefaultVersionTenths == 33

None == "None"

Keys == {"TUYA_DEVICE_ID", "TUYA_DEVICE_IP", "TUYA_LOCAL_KEY", "TUYA_VERSION"}

RetryArgs == -1 .. MaxRetries

PlugArgs == 0 .. MaxPlugArg

\* ------------------------------------------------------------ variables
VARIABLES
    pc,         \* position of the single control thread
    args,       \* the argparse namespace: command, plug, retries, timeout, system_wide
    ambient,    \* the environment variables the process was started with
    environ,    \* os.environ of the process (load_dotenv writes it)
    homeFile,   \* ~/.tuya-strip: [exists, kv]
    etcDir,     \* whether /etc/tuya-strip exists
    etcFile,    \* /etc/tuya-strip/config: [exists, kv]
    envFile,    \* the .env file load_dotenv() finds by itself: [exists, kv]
    config,     \* <<>> before load_config returns, <<the dict>> after
    d,          \* <<>> before the device handle exists, <<the handle>> after
    attempt,    \* run_with_retry's loop variable (0 outside the loop)
    last_error, \* run_with_retry's last_error
    exc,        \* the exception an attempt raised, or None
    data,       \* the last response a device call returned, <<>> if none
    trace,      \* everything printed, called, slept and exited, in order
    exitCode    \* the process exit status, -1 while running

vars == <<pc, args, ambient, environ, homeFile, etcDir, etcFile, envFile,
          config, d, attempt, last_error, exc, data, trace, exitCode>>

fsVars == <<homeFile, etcDir, etcFile>>

retryVars == <<attempt, last_error, exc, data>>

\* ------------------------------------------------------------ helpers
Emit(e) == trace' = Append(trace, e)

EmitAll(es) == trace' = trace \o es

Line(tag) == [ev |-> tag]

Exit(code) == [ev |-> "exit", code |-> code]

\* dict.get(k, default)
Get(dict, k, default) == IF k \in DOMAIN dict THEN dict[k] ELSE default

\* os.getenv(k) / os.getenv(k, default)
getenv(env, k, default) == Get(env, k, default)

\* Python truthiness of an optional string: None and "" are false
Truthy(s) == s # None /\ s # ""

\* ------------------------------------------------------------ configuration inputs
NoFile == [exists |-> FALSE, kv |-> <<>>]

VersionOf(loc) ==
    CASE loc = "home" -> "3.4"
      [] loc = "etc"  -> "3.1"
      [] loc = "dotenv" -> "3.2"
      [] OTHER -> "3.5"

\* a complete credentials file (or environment) whose values name where they come from
Full(loc) ==
    [k \in Keys |-> IF k = "TUYA_VERSION" THEN VersionOf(loc) ELSE loc \o ":" \o k]

\* the same without the local key and without a version line
NoKey(loc) ==
    [k \in {"TUYA_DEVICE_ID", "TUYA_DEVICE_IP"} |-> loc \o ":" \o k]

FileOf(kv) == [exists |-> TRUE, kv |-> kv]

HomeFiles == {NoFile, FileOf(Full("home")), FileOf(NoKey("home"))}

EtcFiles == {NoFile, FileOf(Full("etc"))}

EnvFiles == {NoFile, FileOf(Full("dotenv"))}

EmptyEnv == [k \in {} |-> ""]

Ambients ==
    { EmptyEnv,
      Full("env"),
      [k \in {"TUYA_LOCAL_KEY"} |-> ""],
      [k \in {"TUYA_VERSION"} |-> "abc"] }

\* float(s) for the version strings that occur, in tenths; ValueError otherwise
ParseFloat(s) ==
    CASE s = "3.1" -> [ok |-> TRUE, value |-> 31]
      [] s = "3.2" -> [ok |-> TRUE, value |-> 32]
      [] s = "3.3" -> [ok |-> TRUE, value |-> DefaultVersionTenths]
      [] s = "3.4" -> [ok |-> TRUE, value |-> 34]
      [] s = "3.5" -> [ok |-> TRUE, value |-> 35]
      [] OTHER -> [ok |-> FALSE, value |-> 0]

\* ------------------------------------------------------------ load_config
\* dotenv.load_dotenv(path) with its default override=False: a key of the file is
\* set in os.environ only when os.environ does not have it yet
load_dotenv(env, file) ==
    IF ~file.exists THEN env
    ELSE [k \in DOMAIN env \cup DOMAIN file.kv |->
            IF k \in DOMAIN env THEN env[k] ELSE file.kv[k]]

\* the two locations in the other order: system-wide before user-specific
config_locations_swapped == <<"etc", "home">>

\* the ordered list of candidate paths
config_locations == <<"home", "etc">>

FileAt(loc) ==
    CASE loc = "home" -> homeFile
      [] loc = "etc" -> etcFile
      [] OTHER -> envFile

\* the for/else of load_config: the first existing location, or "dotenv" for the
\* else branch (load_dotenv() with no path)
FirstExisting(locs) ==
    IF \E i \in 1..Len(locs) : FileAt(locs[i]).exists
    THEN locs[CHOOSE i \in 1..Len(locs) :
                /\ FileAt(locs[i]).exists
                /\ \A j \in 1..(i-1) : ~FileAt(locs[j]).exists]
    ELSE "dotenv"

\* the dict load_config returns, given os.environ after loading
ConfigDict(env) ==
    [DEVICE_ID |-> getenv(env, "TUYA_DEVICE_ID", None),
     DEVICE_IP |-> getenv(env, "TUYA_DEVICE_IP", None),
     LOCAL_KEY |-> getenv(env, "TUYA_LOCAL_KEY", None),
     VERSION   |-> ParseFloat(getenv(env, "TUYA_VERSION", "3.3")).value]

load_config ==
    /\ pc = "load_config"
    /\ LET loc == FirstExisting(config_locations)
           env == load_dotenv(environ, FileAt(loc))
           ver == ParseFloat(getenv(env, "TUYA_VERSION", "3.3"))
           out == IF loc = "dotenv" THEN <<>>
                  ELSE <<[ev |-> "loading_config", loc |-> loc]>>
       IN /\ environ' = env
          /\ IF ver.ok
             THEN /\ config' = <<ConfigDict(env)>>
                  /\ pc' = "check_credentials"
                  /\ trace' = trace \o out
                  /\ exitCode' = exitCode
             ELSE \* float() raises ValueError, nothing catches it
                  /\ config' = config
                  /\ pc' = "done"
                  /\ trace' = trace \o out \o <<Line("traceback"), Exit(1)>>
                  /\ exitCode' = 1
    /\ UNCHANGED <<args, ambient, fsVars, envFile, d, retryVars>>

\* ------------------------------------------------------------ argument parsing
Commands == {"none", "setup", "on", "off", "status"}

Namespace(cmd, plug, retries, sw) ==
    [command |-> cmd, plug |-> plug, retries |-> retries,
     timeout |-> DefaultTimeout, system_wide |-> sw]

\* parser.parse_args() on a well-formed command line, and the setup branch of main
parse_args ==
    /\ pc = "main"
    /\ \E cmd \in Commands :
       \E plug \in (IF cmd \in {"on", "off"} THEN PlugArgs ELSE {0}) :
       \E retries \in (IF cmd = "setup" THEN {DefaultRetries} ELSE RetryArgs) :
       \E sw \in (IF cmd = "setup" THEN BOOLEAN ELSE {FALSE}) :
          /\ args' = <<Namespace(cmd, plug, retries, sw)>>
          /\ pc' = IF cmd = "setup" THEN "setup_config" ELSE "load_config"
    /\ UNCHANGED <<ambient, environ, fsVars, envFile, config, d, retryVars,
                   trace, exitCode>>

\* --version: argparse prints the version and exits 0
parse_version ==
    /\ pc = "main"
    /\ pc' = "done"
    /\ EmitAll(<<Line("version"), Exit(0)>>)
    /\ exitCode' = 0
    /\ UNCHANGED <<args, ambient, environ, fsVars, envFile, config, d, retryVars>>

\* a command line argparse rejects: usage on stderr, exit 2
parse_error ==
    /\ pc = "main"
    /\ pc' = "done"
    /\ EmitAll(<<Line("usage"), Exit(2)>>)
    /\ exitCode' = 2
    /\ UNCHANGED <<args, ambient, environ, fsVars, envFile, config, d, retryVars>>

\* ------------------------------------------------------------ setup_config
\* str.strip() on the answers that are typed in
strip(s) ==
    CASE s = " id " -> "id"
      [] s = " 3.4 " -> "3.4"
      [] s = "  " -> ""
      [] OTHER -> s

\* the four key=value lines of config_content, as dotenv reads them back
config_content(device_id, device_ip, local_key, version) ==
    [k \in Keys |->
        CASE k = "TUYA_DEVICE_ID" -> device_id
          [] k = "TUYA_DEVICE_IP" -> device_ip
          [] k = "TUYA_LOCAL_KEY" -> local_key
          [] OTHER -> version]

\* a filesystem call of setup and whether the system denied it (PermissionError)
Syscall(name, path, denied) ==
    [ev |-> "syscall", name |-> name, path |-> path, denied |-> denied]

suggest_sudo_command == <<Line("try_sudo"), Line("symlink_hint")>>

\* what _handle_permission_error prints before sys.exit(1)
handle_permission_error(config_path, is_system_wide) ==
    <<[ev |-> "permission_denied_writing", path |-> config_path]>>
    \o (IF is_system_wide THEN suggest_sudo_command ELSE <<>>)

\* a denied write that has already truncated the file
write_denied_truncating(file) == FileOf(EmptyEnv)

\* Path.write_text when open() is denied: PermissionError, the file is untouched
write_denied(file) == file

setup_config ==
    /\ pc = "setup_config"
    /\ \E in_id \in {"id", " id "}, in_key \in {"key", ""}, in_version \in {"  ", " 3.4 "},
          mkdirDenied \in BOOLEAN, writeDenied \in BOOLEAN :
        LET system_wide == args[1].system_wide
            version == IF strip(in_version) = "" THEN "3.3" ELSE strip(in_version)
            content == config_content(strip(in_id), "ip", strip(in_key), version)
            config_path == IF system_wide THEN "etc" ELSE "home"
            target == IF system_wide THEN etcFile ELSE homeFile
            mkdirFails == system_wide /\ ~etcDir /\ mkdirDenied
            head == <<Line("setup_banner")>>
                    \o (IF system_wide
                        THEN <<Syscall("mkdir", "etc_dir", mkdirFails)>>
                        ELSE <<>>)
                    \o (IF mkdirFails THEN <<>>
                        ELSE <<Syscall("write_text", config_path, writeDenied)>>)
        IN IF mkdirFails
           THEN \* mkdir raises PermissionError
                /\ EmitAll(head \o <<Line("permission_denied_creating_directory"),
                                     Line("requires_elevated_privileges")>>
                                \o suggest_sudo_command \o <<Exit(1)>>)
                /\ exitCode' = 1
                /\ UNCHANGED fsVars
           ELSE IF writeDenied
           THEN /\ EmitAll(head \o handle_permission_error(config_path, system_wide)
                                \o <<Exit(1)>>)
                /\ exitCode' = 1
                /\ etcDir' = (etcDir \/ system_wide)
                /\ etcFile' = IF system_wide THEN write_denied(etcFile) ELSE etcFile
                /\ homeFile' = IF system_wide THEN homeFile ELSE write_denied(homeFile)
           ELSE /\ EmitAll(head \o <<[ev |-> "configuration_saved", path |-> config_path],
                                     Line("you_can_now_use"), Exit(0)>>)
                /\ exitCode' = 0
                /\ etcDir' = (etcDir \/ system_wide)
                /\ etcFile' = IF system_wide THEN FileOf(content) ELSE etcFile
                /\ homeFile' = IF system_wide THEN homeFile ELSE FileOf(content)
    /\ pc' = "done"
    /\ UNCHANGED <<args, ambient, environ, envFile, config, d, retryVars>>

\* ------------------------------------------------------------ main, after load_config
\* not all([DEVICE_ID, DEVICE_IP]): a check that forgets the local key
MissingCredentialsNoKey(c) == ~(Truthy(c.DEVICE_ID) /\ Truthy(c.DEVICE_IP))

\* not all([DEVICE_ID, DEVICE_IP, LOCAL_KEY])
MissingCredentials(c) ==
    ~(Truthy(c.DEVICE_ID) /\ Truthy(c.DEVICE_IP) /\ Truthy(c.LOCAL_KEY))

check_credentials ==
    /\ pc = "check_credentials"
    /\ IF MissingCredentials(config[1])
       THEN /\ EmitAll(<<Line("missing_credentials_run_setup"), Exit(1)>>)
            /\ exitCode' = 1
            /\ pc' = "done"
       ELSE /\ pc' = "init_device"
            /\ UNCHANGED <<trace, exitCode>>
    /\ UNCHANGED <<args, ambient, environ, fsVars, envFile, config, d, retryVars>>

\* tinytuya.OutletDevice(...) and d.set_version(VERSION): no network traffic
init_device ==
    /\ pc = "init_device"
    /\ d' = <<[dev_id |-> config[1].DEVICE_ID, address |-> config[1].DEVICE_IP,
               local_key |-> config[1].LOCAL_KEY,
               connection_timeout |-> args[1].timeout,
               version |-> config[1].VERSION]>>
    /\ pc' = "dispatch"
    /\ UNCHANGED <<args, ambient, environ, fsVars, envFile, config, retryVars,
                   trace, exitCode>>

\* ------------------------------------------------------------ run_with_retry
\* a wrapper that sleeps after the last attempt too
ShouldSleepAlways(a, retries) == a <= retries

\* if attempt < retries: time.sleep(delay)
ShouldSleep(a, retries) == a < retries

\* for attempt in range(1, retries + 1): whether an iteration follows attempt a
HasNext(a, retries) == a < retries

AllFailed(retries, err) == [ev |-> "all_attempts_failed", retries |-> retries, msg |-> err]

\* the loop header reached with loop variable a and last_error err: the next
\* iteration, or the code after the loop (summary and sys.exit(1))
Advance(a, err, out) ==
    IF HasNext(a, args[1].retries)
    THEN /\ attempt' = a + 1
         /\ pc' = "invoke"
         /\ EmitAll(out)
         /\ exitCode' = exitCode
    ELSE /\ attempt' = a
         /\ pc' = "done"
         /\ EmitAll(out \o <<AllFailed(args[1].retries, err), Exit(1)>>)
         /\ exitCode' = 1

\* a wrapper that drops the result of a successful attempt and goes on looping
ReturnDropped(out) == Advance(attempt, last_error, out)

\* return action(): run_with_retry returns, main returns, the process exits 0
Return(out) ==
    /\ pc' = "done"
    /\ EmitAll(out \o <<Exit(0)>>)
    /\ exitCode' = 0
    /\ attempt' = attempt

\* the command dispatch at the end of main; run_with_retry starts with
\* last_error = None and enters its loop
dispatch ==
    /\ pc = "dispatch"
    /\ IF args[1].command \in {"on", "off", "status"}
       THEN /\ last_error' = <<None>>
            /\ Advance(0, <<None>>, <<>>)
       ELSE /\ EmitAll(<<Line("help"), Exit(1)>>)
            /\ exitCode' = 1
            /\ pc' = "done"
            /\ UNCHANGED <<attempt, last_error>>
    /\ UNCHANGED <<args, ambient, environ, fsVars, envFile, config, d, exc, data>>

\* ------------------------------------------------------------ the device
\* what a call on the device handle can do: raise, or return a response dict
TimeoutExc == [type |-> "socket.timeout", msg |-> <<"timed out">>]

RefusedExc == [type |-> "ConnectionRefusedError", msg |-> <<"Connection refused">>]

OtherExc == [type |-> "Exception", msg |-> <<"library failure">>]

NoExc == [type |-> None, msg |-> <<None>>]

DeviceRaises == {TimeoutExc, RefusedExc, OtherExc}

\* a response carrying the embedded error indicator
ErrorResponse == [Error |-> "Network Error: Device Unreachable", Err |-> "905"]

\* the same without an error code
ErrorResponseNoCode == [Error |-> "Unexpected Payload from Device"]

SwitchKeys == {"1", "2", "3"}

EnergyKeys == {"18", "19", "20"}

\* a reading: the switch keys are booleans, the others integers
Reading(k) ==
    CASE k = "1" -> TRUE
      [] k = "2" -> FALSE
      [] k = "3" -> TRUE
      [] k = "18" -> 180
      [] k = "19" -> 19
      [] k = "20" -> 2300
      [] OTHER -> 0

Dps(keys) == [dps |-> [k \in keys |-> Reading(k)]]

StatusResponses ==
    { Dps(SwitchKeys \cup EnergyKeys \cup {"9", "21"}),
      Dps({"1", "3", "20"}),
      [devId |-> "id"] }

SetStatusResponses == { Dps({"1"}) }

\* ------------------------------------------------------------ do_status, do_on, do_off
\* a check that looks for the error code instead of the error indicator
HasErrorByCode(r) == "Err" \in DOMAIN r

\* 'Error' in data
HasError(r) == "Error" \in DOMAIN r

\* the generic failure the operations raise on a device-reported error
DeviceError(r) ==
    [type |-> "Exception",
     msg |-> <<"Device error:", r.Error, "Code:", Get(r, "Err", "Unknown")>>]

dpsOf(r) == Get(r, "dps", EmptyEnv)

\* a switch map built from every key below 4, not from the three switch keys
switches_all(r) ==
    [k \in {k \in DOMAIN dpsOf(r) : k \notin EnergyKeys} |-> dpsOf(r)[k]]

switches(r) ==
    [k \in {k \in DOMAIN dpsOf(r) : k \in {"1", "2", "3"}} |-> dpsOf(r)[k]]

energy(r) ==
    [voltage_V  |-> Get(dpsOf(r), "20", None),
     current_mA |-> Get(dpsOf(r), "18", None),
     power_W    |-> Get(dpsOf(r), "19", None)]

\* the body of an operation after its device call returned r: it raises, or
\* prints and returns
do_status(r) ==
    IF HasError(r)
    THEN [raised |-> TRUE, exc |-> DeviceError(r), out |-> <<>>]
    ELSE [raised |-> FALSE, exc |-> NoExc,
          out |-> <<[ev |-> "switches", map |-> switches(r)],
                    [ev |-> "energy", map |-> energy(r)]>>]

do_on(r, num) ==
    IF HasError(r)
    THEN [raised |-> TRUE, exc |-> DeviceError(r), out |-> <<>>]
    ELSE [raised |-> FALSE, exc |-> NoExc,
          out |-> <<[ev |-> "plug_turned", plug |-> num, state |-> "ON"]>>]

do_off(r, num) ==
    IF HasError(r)
    THEN [raised |-> TRUE, exc |-> DeviceError(r), out |-> <<>>]
    ELSE [raised |-> FALSE, exc |-> NoExc,
          out |-> <<[ev |-> "plug_turned", plug |-> num, state |-> "OFF"]>>]

\* the one call an operation makes on the device handle
\* (raised is the type of the exception it raised or None, response is <<>> or
\* <<the dict it returned>>)
DeviceCall(cmd, num, raised, response) ==
    [ev |-> "device_call",
     method |-> IF cmd = "status" THEN "status" ELSE "set_status",
     on |-> (cmd = "on"),
     plug |-> num,
     raised |-> raised,
     response |-> response]

Operation(cmd, r, num) ==
    CASE cmd = "on" -> do_on(r, num)
      [] cmd = "off" -> do_off(r, num)
      [] OTHER -> do_status(r)

\* ------------------------------------------------------------ one attempt
\* return action(), when the device call raises
invoke_raises ==
    /\ pc = "invoke"
    /\ \E e \in DeviceRaises :
        /\ exc' = e
        /\ Emit(DeviceCall(args[1].command, args[1].plug, e.type, <<>>))
    /\ pc' = "except"
    /\ UNCHANGED <<args, ambient, environ, fsVars, envFile, config, d, attempt,
                   last_error, data, exitCode>>

\* return action(), when the device call returns a response
invoke_returns ==
    /\ pc = "invoke"
    /\ \E r \in (IF args[1].command = "status" THEN StatusResponses
                 ELSE SetStatusResponses) \cup {ErrorResponse, ErrorResponseNoCode} :
        LET call == DeviceCall(args[1].command, args[1].plug, None, <<r>>)
            res == Operation(args[1].command, r, args[1].plug)
        IN /\ data' = <<r>>
           /\ IF res.raised
              THEN /\ exc' = res.exc
                   /\ pc' = "except"
                   /\ Emit(call)
                   /\ UNCHANGED <<attempt, exitCode>>
              ELSE /\ exc' = exc
                   /\ Return(<<call>> \o res.out)
    /\ UNCHANGED <<args, ambient, environ, fsVars, envFile, config, d, last_error>>

\* a single except clause: every failure reported by its raw message
ClassifyGeneric(e) == e.msg

\* the three except clauses: the message kept in last_error and printed
Classify(e) ==
    CASE e.type = "socket.timeout" ->
            <<"Device connection timed out - device may be unreachable">>
      [] e.type = "ConnectionRefusedError" ->
            <<"Connection refused - device may be offline or wrong IP address">>
      [] OTHER -> e.msg

AttemptFailed(a, msg) == [ev |-> "attempt_failed", attempt |-> a, msg |-> msg]

handle_exception ==
    /\ pc = "except"
    /\ last_error' = Classify(exc)
    /\ exc' = NoExc
    /\ IF ShouldSleep(attempt, args[1].retries)
       THEN /\ pc' = "sleep"
            /\ Emit(AttemptFailed(attempt, Classify(exc)))
            /\ UNCHANGED <<attempt, exitCode>>
       ELSE Advance(attempt, Classify(exc), <<AttemptFailed(attempt, Classify(exc))>>)
    /\ UNCHANGED <<args, ambient, environ, fsVars, envFile, config, d, data>>

\* time.sleep(delay), then the loop header
sleep ==
    /\ pc = "sleep"
    /\ Advance(attempt, last_error, <<[ev |-> "sleep", delay |-> DefaultDelay]>>)
    /\ UNCHANGED <<args, ambient, environ, fsVars, envFile, config, d, last_error,
                   exc, data>>

\* ------------------------------------------------------------ specification
Init ==
    /\ pc = "main"
    /\ args = <<>>
    /\ ambient \in Ambients
    /\ environ = ambient
    /\ homeFile \in HomeFiles
    /\ etcFile \in EtcFiles
    /\ etcDir \in (IF etcFile.exists THEN {TRUE} ELSE BOOLEAN)
    /\ envFile \in EnvFiles
    /\ config = <<>>
    /\ d = <<>>
    /\ attempt = 0
    /\ last_error = <<None>>
    /\ exc = NoExc
    /\ data = <<>>
    /\ trace = <<>>
    /\ exitCode = -1

Next ==
    \/ parse_args
    \/ parse_version
    \/ parse_error
    \/ setup_config
    \/ load_config
    \/ check_credentials
    \/ init_device
    \/ dispatch
    \/ invoke_raises
    \/ invoke_returns
    \/ handle_exception
    \/ sleep

Spec == Init /\ [][Next]_vars

\* ------------------------------------------------------------ reading the trace
DeviceCommands == {"on", "off", "status"}

Events(tag) == {i \in 1..Len(trace) : trace[i].ev = tag}

Calls == Events("device_call")

NumCalls == Cardinality(Calls)

NumSleeps == Cardinality(Events("sleep"))

\* the number of the attempt the call at index i belongs to
AttemptOf(i) == Cardinality({j \in Calls : j <= i})

IsTransportFailure(e) == e.raised \in {"socket.timeout", "ConnectionRefusedError"}

IsDeviceError(e) == e.response # <<>> /\ "Error" \in DOMAIN e.response[1]

IsFailure(e) == e.raised # None \/ IsDeviceError(e)

TransportFailures == {i \in Calls : IsTransportFailure(trace[i])}

\* the retry wrapper has been entered
InRetry ==
    /\ args # <<>>
    /\ args[1].command \in DeviceCommands
    /\ d # <<>>
    /\ pc \in {"invoke", "except", "sleep", "done"}

Retries == args[1].retries

Has(tag) == Events(tag) # {}

\* ------------------------------------------------------------ claims

\* C1 as stated: for every retry count N, after N transport failures in a row the
\* operation was invoked N times, N-1 sleeps happened and the exit status is 1.
C1_AsStated ==
    (InRetry /\ pc = "done" /\ Calls = TransportFailures
        /\ Cardinality(TransportFailures) = Retries)
    => (NumCalls = Retries /\ NumSleeps = Retries - 1 /\ exitCode = 1)

\* C1 amended: for every retry count N >= 1, once N attempts in a row failed with a
\* transport failure the operation has been invoked exactly N times and exactly N-1
\* sleeps happened, nothing is invoked or slept after that, and the process ends
\* with exit status 1; for N <= 0 nothing is invoked or slept and the exit status
\* is 1 all the same.
C1_RetryExhaustion ==
    InRetry =>
        /\ (Retries >= 1 /\ Calls = TransportFailures /\ NumCalls = Retries)
            => /\ NumSleeps = Retries - 1
               /\ pc \in {"except", "done"}
               /\ pc = "done" => (exitCode = 1 /\ trace[Len(trace)] = Exit(1))
        /\ Retries >= 1 => (NumCalls <= Retries /\ NumSleeps <= Retries - 1)
        /\ Retries <= 0
            => (pc = "done" /\ NumCalls = 0 /\ NumSleeps = 0 /\ exitCode = 1)

C1_Witness ==
    /\ InRetry /\ pc = "done" /\ Retries = DefaultRetries
    /\ Calls = TransportFailures
    /\ NumCalls = DefaultRetries
    /\ \E i, j \in Calls : trace[i].raised = "socket.timeout"
                           /\ trace[j].raised = "ConnectionRefusedError"
    /\ exitCode = 1

\* C2: once an attempt succeeds the wrapper returns: no later invocation, no later
\* sleep, no failure summary, and the process does not end with a failure status.
C2_SuccessReturns ==
    \A i \in Calls :
        ~IsFailure(trace[i]) =>
            /\ \A j \in (i+1)..Len(trace) :
                  trace[j].ev \notin {"device_call", "sleep", "attempt_failed",
                                      "all_attempts_failed"}
            /\ AttemptOf(i) = attempt
            /\ pc = "done"
            /\ exitCode = 0
            /\ trace[Len(trace)] = Exit(0)

C2_Witness ==
    /\ pc = "done" /\ exitCode = 0
    /\ NumCalls = 3 /\ NumSleeps = 2
    /\ \E i \in Calls : ~IsFailure(trace[i])

\* C3: on, off and status with an empty or absent device id, device ip or local key
\* after configuration loading: the setup hint is printed and the exit status is 1,
\* no device handle is created, no device call is issued, no attempt is started.
C3_MissingCredentialsStop ==
    (/\ args # <<>>
     /\ args[1].command \in DeviceCommands
     /\ config # <<>>
     /\ \/ config[1].DEVICE_ID \in {None, ""}
        \/ config[1].DEVICE_IP \in {None, ""}
        \/ config[1].LOCAL_KEY \in {None, ""})
    => /\ d = <<>>
       /\ NumCalls = 0
       /\ NumSleeps = 0
       /\ attempt = 0
       /\ pc \in {"check_credentials", "done"}
       /\ pc = "done" =>
            /\ exitCode = 1
            /\ Len(trace) >= 2
            /\ trace[Len(trace) - 1].ev = "missing_credentials_run_setup"
            /\ trace[Len(trace)] = Exit(1)

C3_Witness ==
    /\ args # <<>> /\ args[1].command = "on"
    /\ config # <<>>
    /\ config[1].DEVICE_ID # None /\ config[1].DEVICE_IP # None
    /\ config[1].LOCAL_KEY = ""
    /\ pc = "done" /\ exitCode = 1
    /\ Has("missing_credentials_run_setup")

\* the value load_config reports for key k when the key has value v or is unset
Reported(k, dict) ==
    IF k = "TUYA_VERSION"
    THEN ParseFloat(IF k \in DOMAIN dict THEN dict[k] ELSE "3.3").value
    ELSE IF k \in DOMAIN dict THEN dict[k] ELSE None

ConfigValue(k) ==
    CASE k = "TUYA_DEVICE_ID" -> config[1].DEVICE_ID
      [] k = "TUYA_DEVICE_IP" -> config[1].DEVICE_IP
      [] k = "TUYA_LOCAL_KEY" -> config[1].LOCAL_KEY
      [] OTHER -> config[1].VERSION

\* C4 as stated: with the search order current-directory file, user-home file,
\* system-wide path, the four values load_config returns are those of the file in
\* the highest-priority location that exists, whatever lower-priority files and
\* the ambient environment variables say.
C4_AsStated ==
    (config # <<>> /\ (envFile.exists \/ homeFile.exists \/ etcFile.exists))
    => LET file == IF envFile.exists THEN envFile
                   ELSE IF homeFile.exists THEN homeFile ELSE etcFile
       IN \A k \in Keys : ConfigValue(k) = Reported(k, file.kv)

\* C4 amended: the search order is user-home file, then system-wide path, and the
\* .env file only when neither exists; each of the four values load_config returns
\* is the ambient environment variable of that name when one is set, and otherwise
\* the value of the first existing file in that order (None, or 3.3 for the
\* version, when that file does not set it); files later in the order are not used.
C4_HomeThenSystemEnvWins ==
    config # <<>> =>
        LET file == IF homeFile.exists THEN homeFile
                    ELSE IF etcFile.exists THEN etcFile ELSE envFile
        IN \A k \in Keys :
            ConfigValue(k) =
                IF k \in DOMAIN ambient THEN Reported(k, ambient)
                ELSE Reported(k, file.kv)

C4_Witness ==
    /\ config # <<>>
    /\ homeFile = FileOf(Full("home")) /\ etcFile.exists /\ envFile.exists
    /\ ambient = EmptyEnv
    /\ config[1].LOCAL_KEY = "home:TUYA_LOCAL_KEY"
    /\ config[1].VERSION = 34

\* C5 as stated: with no subcommand the help text is printed and the exit status is
\* 1 whatever credentials configuration loading returned (present, partially
\* present or missing), and no device call is issued.
C5_AsStated ==
    (pc = "done" /\ args # <<>> /\ args[1].command = "none" /\ config # <<>>)
    => (exitCode = 1 /\ Has("help") /\ NumCalls = 0)

\* a denied filesystem call on the system-wide target is in trace t
DeniedSystemWide(t) ==
    \E i \in 1..Len(t) : t[i].ev = "syscall" /\ t[i].denied
                         /\ t[i].path \in {"etc", "etc_dir"}

PrintedIn(t, tag) == \E i \in 1..Len(t) : t[i].ev = tag

\* C6: setup --system-wide whose directory creation or file write is denied prints
\* a permission-denied message and the sudo/symlink hint, exits with status 1 and
\* leaves the configuration file exactly as it was.
C6_DeniedSetupWritesNothing ==
    [][(pc = "setup_config" /\ DeniedSystemWide(trace'))
        => /\ args[1].system_wide
           /\ etcFile' = etcFile
           /\ homeFile' = homeFile
           /\ exitCode' = 1
           /\ \/ PrintedIn(trace', "permission_denied_writing")
              \/ PrintedIn(trace', "permission_denied_creating_directory")
           /\ PrintedIn(trace', "try_sudo")
           /\ PrintedIn(trace', "symlink_hint")
           /\ ~PrintedIn(trace', "configuration_saved")
           /\ trace'[Len(trace')] = Exit(1)]_vars

C6_Witness ==
    /\ pc = "done" /\ args # <<>> /\ args[1].command = "setup"
    /\ \E i \in 1..Len(trace) : trace[i].ev = "syscall" /\ trace[i].denied
                                /\ trace[i].name = "write_text" /\ trace[i].path = "etc"
    /\ etcFile = FileOf(Full("etc"))
    /\ exitCode = 1

\* C7 as stated: the plug index of every set_status call, and of every turned
\* ON/OFF confirmation, is 1, 2 or 3.
C7_AsStated ==
    \A i \in 1..Len(trace) :
        /\ (trace[i].ev = "device_call" /\ trace[i].method = "set_status")
            => trace[i].plug \in 1..3
        /\ trace[i].ev = "plug_turned" => trace[i].plug \in 1..3

\* a status call that returned a response without error indicator and with all six keys
FullStatusReply(e) ==
    /\ e.ev = "device_call" /\ e.method = "status"
    /\ e.response # <<>>
    /\ "Error" \notin DOMAIN e.response[1]
    /\ "dps" \in DOMAIN e.response[1]
    /\ {"1", "2", "3", "18", "19", "20"} \subseteq DOMAIN e.response[1].dps

\* C8: a status response without error indicator whose dps has the keys 1, 2, 3,
\* 18, 19 and 20 is printed as a switch map with exactly the keys 1, 2, 3 and their
\* dps values, and an energy map with voltage = dps 20, current = dps 18 and
\* power = dps 19.
C8_StatusMaps ==
    \A i \in 1..Len(trace) :
        FullStatusReply(trace[i]) =>
            LET dps == trace[i].response[1].dps
            IN /\ Len(trace) >= i + 2
               /\ trace[i+1].ev = "switches"
               /\ DOMAIN trace[i+1].map = {"1", "2", "3"}
               /\ \A k \in {"1", "2", "3"} : trace[i+1].map[k] = dps[k]
               /\ trace[i+2].ev = "energy"
               /\ trace[i+2].map.voltage_V = dps["20"]
               /\ trace[i+2].map.current_mA = dps["18"]
               /\ trace[i+2].map.power_W = dps["19"]

C8_Witness ==
    /\ pc = "done" /\ exitCode = 0
    /\ \E i \in 1..Len(trace) :
        /\ FullStatusReply(trace[i])
        /\ DOMAIN trace[i].response[1].dps # {"1", "2", "3", "18", "19", "20"}
        /\ trace[i+1].ev = "switches"

\* C9: a device-reported error is retried like a transport failure: every attempt
\* issues exactly one device call; an attempt whose response carries the error
\* indicator prints no switch/energy map and no confirmation but the failure of
\* that attempt, is followed by the fixed sleep and the next attempt while attempts
\* remain, and N such attempts in a row end with exit status 1.
C9_DeviceErrorRetried ==
    /\ NumCalls = attempt - (IF pc = "invoke" THEN 1 ELSE 0)
    /\ \A i \in Calls :
        IsDeviceError(trace[i]) =>
            LET k == AttemptOf(i)
                n == Len(trace)
            IN /\ n >= i + 1 => (trace[i+1].ev = "attempt_failed"
                                 /\ trace[i+1].attempt = k
                                 /\ trace[i+1].msg[1] = "Device error:")
               /\ n = i => pc = "except"
               /\ (k < Retries /\ n >= i + 2)
                    => (trace[i+2].ev = "sleep" /\ trace[i+2].delay = DefaultDelay)
               /\ (k < Retries /\ n = i + 1) => pc = "sleep"
               /\ (k < Retries /\ n >= i + 3) => trace[i+3].ev = "device_call"
               /\ (k < Retries /\ n = i + 2) => pc = "invoke"
               /\ k >= Retries
                    => (/\ n >= i + 3
                        /\ trace[i+2].ev = "all_attempts_failed"
                        /\ trace[i+3] = Exit(1)
                        /\ exitCode = 1) \/ n = i
    /\ (InRetry /\ pc = "done" /\ Retries >= 1
            /\ Cardinality({i \in Calls : IsDeviceError(trace[i])}) = Retries)
        => exitCode = 1

C9_Witness ==
    /\ InRetry /\ pc = "done" /\ exitCode = 1
    /\ Retries = 3 /\ NumCalls = 3 /\ NumSleeps = 2
    /\ \A i \in Calls : IsDeviceError(trace[i])
    /\ \E i \in Calls : "Err" \notin DOMAIN trace[i].response[1]

\* the message the wrapper prints for a failed call
ExpectedMessage(e) ==
    IF e.raised = "socket.timeout"
    THEN <<"Device connection timed out - device may be unreachable">>
    ELSE IF e.raised = "ConnectionRefusedError"
    THEN <<"Connection refused - device may be offline or wrong IP address">>
    ELSE IF e.raised # None
    THEN <<"library failure">>
    ELSE <<"Device error:", e.response[1].Error, "Code:",
           IF "Err" \in DOMAIN e.response[1] THEN e.response[1].Err ELSE "Unknown">>

\* C10: no failed attempt is silent: the message of attempt k is printed right
\* after the failure, before the sleep, the next invocation, the summary and the
\* exit; the summary after N failed attempts reports the error of attempt N.
C10_EveryFailurePrinted ==
    /\ \A i \in Calls :
        IsFailure(trace[i]) =>
            /\ Len(trace) = i => pc = "except"
            /\ Len(trace) > i
                => trace[i+1] = AttemptFailed(AttemptOf(i), ExpectedMessage(trace[i]))
    /\ \A j \in Events("sleep") \cup Events("all_attempts_failed") :
        (trace[j].ev = "sleep" \/ Retries >= 1)
            => (j > 1 /\ trace[j-1].ev = "attempt_failed")
    /\ \A j \in Events("all_attempts_failed") :
        /\ trace[j].retries = Retries
        /\ Retries >= 1 =>
            \E i \in Calls :
                /\ AttemptOf(i) = Retries
                /\ \A c \in Calls : c <= i
                /\ trace[j].msg = ExpectedMessage(trace[i])

C10_Witness ==
    /\ pc = "done" /\ exitCode = 1 /\ InRetry
    /\ Retries = 3 /\ NumCalls = 3
    /\ \E i, j \in Calls : /\ i < j
                           /\ trace[i].raised = "socket.timeout"
                           /\ IsDeviceError(trace[j])
                           /\ AttemptOf(j) = 3
    /\ \E j \in Events("all_attempts_failed") : trace[j].msg[1] = "Device error:"

====
